---- MODULE Spec2Model ----
(***************************************************************************)
(* Block Decomposition Method (bdm): the partition / lookup / aggregate     *)
(* stages (src/bdm/stages.py), the array encoders (src/bdm/encoding.py)     *)
(* and the BDM.complexity pipeline (src/bdm/bdm.py).                        *)
(*                                                                         *)
(* A numpy array is a record [shape, flat]: its shape tuple and its         *)
(* elements in row-major (C) order.  A result that may be an exception is   *)
(* a record [err, val]: err = "" when the call returned val, otherwise the  *)
(* name of the exception raised.                                            *)
(***************************************************************************)
EXTENDS Integers, Sequences, FiniteSets, TLC

VARIABLES pc, x, base, code, min_length, decoded, key, fromstr,
          shape, shift, min_width, parts, ctm, ctms, bdm, counts, caller

vars == <<pc, x, base, code, min_length, decoded, key, fromstr,
          shape, shift, min_width, parts, ctm, ctms, bdm, counts, caller>>

(***************************************************************************)
(* Bounds of the model.                                                    *)
(***************************************************************************)
MaxNdim == 3
MaxSize == 4
MaxBase == 3
MaxCode == 30
MaxPartNdim == 3
MaxLen == 5
MaxCells == 36
MaxWidth == 3
MaxShift == 2
MaxCtmWidth == 2
MaxSeqLen == 4
MaxMissing == 2
MaxPairs == 4
MaxCtm == 3

(***************************************************************************)
(* Results and exceptions.                                                 *)
(***************************************************************************)
NoArray == [shape |-> <<0>>, flat |-> <<>>]
None == 0 - 1

OkInt(v) == [err |-> "", val |-> v]
ErrInt(e) == [err |-> e, val |-> 0]
OkArr(a) == [err |-> "", val |-> a]
ErrArr(e) == [err |-> e, val |-> NoArray]
OkStr(s) == [err |-> "", val |-> s]
ErrStr(e) == [err |-> e, val |-> <<>>]

(***************************************************************************)
(* numpy arrays.                                                           *)
(***************************************************************************)
RECURSIVE Prod(_)
Prod(s) == IF Len(s) = 0 THEN 1 ELSE Head(s) * Prod(Tail(s))

RECURSIVE Pow(_, _)
Pow(b, e) == IF e = 0 THEN 1 ELSE b * Pow(b, e - 1)

Ndim(a) == Len(a.shape)
Size(a) == Len(a.flat)

\* The multi-index of the p-th element (0-based) in row-major order.
Unravel(p, shp) ==
    [k \in 1..Len(shp) |->
        (p \div Prod(SubSeq(shp, k + 1, Len(shp)))) % shp[k]]

\* The row-major position (0-based) of a multi-index.
RECURSIVE FlatIndex(_, _)
FlatIndex(idx, shp) ==
    IF Len(shp) = 0 THEN 0
    ELSE Head(idx) * Prod(Tail(shp)) + FlatIndex(Tail(idx), Tail(shp))

At(a, idx) == a.flat[1 + FlatIndex(idx, a.shape)]

\* np.ravel(x): the elements in row-major order as a 1-D array.
Ravel(a) == [shape |-> <<Size(a)>>, flat |-> a.flat]

(***************************************************************************)
(* encoding.py: integer codes.                                             *)
(***************************************************************************)
\* The loop without reversed(): the first element as the lowest digit.
RECURSIVE EncodeLoopForward(_, _, _, _)
EncodeLoopForward(flat, b, i, acc) ==
    IF i >= Len(flat) THEN acc
    ELSE LET xi == flat[i + 1]
         IN  EncodeLoopForward(flat, b, i + 1,
                               IF xi > 0 THEN acc + xi * Pow(b, i) ELSE acc)

\* The loop of encode_sequence: i counts positions from the end of seq.
RECURSIVE EncodeLoop(_, _, _, _)
EncodeLoop(flat, b, i, acc) ==
    IF i >= Len(flat) THEN acc
    ELSE LET xi == flat[Len(flat) - i]
         IN  EncodeLoop(flat, b, i + 1,
                        IF xi > 0 THEN acc + xi * Pow(b, i) ELSE acc)

\* encode_sequence(seq, base).  The arrays of the model hold integers, so the
\* test of seq.dtype passes and is left out.
encode_sequence(seq, b) ==
    IF Size(seq) = 0 THEN OkInt(0)
    ELSE IF Ndim(seq) # 1 THEN ErrInt("AttributeError")
    ELSE IF \E i \in 1..Size(seq) : seq.flat[i] < 0 THEN ErrInt("ValueError")
    ELSE IF \E i \in 1..Size(seq) : seq.flat[i] \notin 0..(b - 1)
         THEN ErrInt("ValueError")
    ELSE OkInt(EncodeLoop(seq.flat, b, 0, 0))

encode_array(a, b) == encode_sequence(Ravel(a), b)

\* The divmod loop of decode_sequence: bits.appendleft(rest).
RECURSIVE DecodeBits(_, _, _)
DecodeBits(c, b, bits) ==
    IF c > 0 THEN DecodeBits(c \div b, b, <<c % b>> \o bits) ELSE bits

Zeros(n) == [i \in 1..n |-> 0]

\* decode_sequence that never pads.
DecodeSequenceNoPad(c, b, minlen) ==
    LET bits == DecodeBits(c, b, <<>>)
    IN  [shape |-> <<Len(bits)>>, flat |-> bits]

\* decode_sequence that pads with append() instead of appendleft().
DecodeSequencePadRight(c, b, minlen) ==
    LET bits == DecodeBits(c, b, <<>>)
        n == Len(bits)
        padded == IF minlen # None /\ minlen # 0 /\ n < minlen
                  THEN bits \o Zeros(minlen - n)
                  ELSE bits
    IN  [shape |-> <<Len(padded)>>, flat |-> padded]

decode_sequence(c, b, minlen) ==
    LET bits == DecodeBits(c, b, <<>>)
        n == Len(bits)
        padded == IF minlen # None /\ minlen # 0 /\ n < minlen
                  THEN Zeros(minlen - n) \o bits
                  ELSE bits
    IN  [shape |-> <<Len(padded)>>, flat |-> padded]

decode_array(c, shp, b) ==
    LET length == Prod(shp)
        seq == decode_sequence(c, b, length)
    IN  IF Size(seq) > length THEN ErrArr("ValueError")
        ELSE IF Size(seq) # length THEN ErrArr("ValueError")
        ELSE OkArr([shape |-> shp, flat |-> seq.flat])

(***************************************************************************)
(* encoding.py: string codes.  A string is a sequence of characters.       *)
(***************************************************************************)
Sep == "-"
DigitChars == <<"0", "1", "2", "3", "4", "5", "6", "7", "8", "9">>

\* str(v) of a single-digit symbol, and int(ch) of a digit character.
StrOf(v) == DigitChars[v + 1]
IntOf(ch) == CHOOSE v \in 0..9 : DigitChars[v + 1] = ch

RECURSIVE Concat(_)
Concat(rows) == IF Len(rows) = 0 THEN <<>> ELSE Head(rows) \o Concat(Tail(rows))

\* A separator lost in the join.
JoinRowsNoSep(rows, sep) == Concat(rows)

\* sep.join(rows)
RECURSIVE JoinRows(_, _)
JoinRows(rows, sep) ==
    IF Len(rows) = 0 THEN <<>>
    ELSE IF Len(rows) = 1 THEN rows[1]
    ELSE rows[1] \o <<sep>> \o JoinRows(Tail(rows), sep)

\* np.apply_along_axis(''.join, ndim - 1, arr.astype(str)), ravelled: one
\* joined string for every run along the last axis, in row-major order.
LastAxisRuns(a) ==
    LET d == Ndim(a)
        n == a.shape[d]
        r == Prod(SubSeq(a.shape, 1, d - 1))
    IN  [i \in 1..r |-> [j \in 1..n |-> StrOf(a.flat[(i - 1) * n + j])]]

string_from_array(a) ==
    IF \E k \in 1..(Ndim(a) - 1) : a.shape[k] = 0 THEN ErrStr("ValueError")
    ELSE OkStr(JoinRows(LastAxisRuns(a), Sep))

\* str.split(sep): the pieces between separators (always at least one piece).
RECURSIVE Split(_, _, _)
Split(s, sep, cur) ==
    IF Len(s) = 0 THEN <<cur>>
    ELSE IF Head(s) = sep THEN <<cur>> \o Split(Tail(s), sep, <<>>)
    ELSE Split(Tail(s), sep, Append(cur, Head(s)))

\* array_from_string(x, shape): shp = <<>> stands for shape=None.
array_from_string(s, shp) ==
    LET rows == Split(s, Sep, <<>>)
        arr == IF \E i \in 1..Len(s) : s[i] = Sep
               THEN [shape |-> <<Len(rows), Len(rows[1])>>,
                     flat |-> Concat(rows)]
               ELSE [shape |-> <<Len(s)>>, flat |-> s]
        ragged == \E i \in 1..Len(rows) : Len(rows[i]) # Len(rows[1])
        cast == [shape |-> arr.shape,
                 flat |-> [i \in 1..Len(arr.flat) |-> IntOf(arr.flat[i])]]
    IN  IF (\E i \in 1..Len(s) : s[i] = Sep) /\ ragged THEN ErrArr("ValueError")
        ELSE IF shp = <<>> THEN OkArr(cast)
        ELSE IF Prod(shp) # Size(cast) THEN ErrArr("ValueError")
        ELSE OkArr([shape |-> shp, flat |-> cast.flat])

(***************************************************************************)
(* stages.py: the partition stage.  Axes are numbered from 1, offsets      *)
(* along an axis from 0.  A generator is modelled by the sequence of the   *)
(* values it yields.                                                       *)
(***************************************************************************)
OkParts(ps) == [err |-> "", val |-> ps]
ErrParts(e) == [err |-> e, val |-> <<>>]

Min(a, b) == IF a <= b THEN a ELSE b

\* x.squeeze(): the axes of length 1 removed.
Squeeze(a) ==
    [shape |-> SelectSeq(a.shape, LAMBDA n : n # 1), flat |-> a.flat]

\* x[idx] with idx = slice(i, j) on axis k and slice(None) elsewhere.
Slice(a, k, i, j) ==
    LET shp == [a.shape EXCEPT ![k] = Min(j, a.shape[k]) - i]
    IN  [shape |-> shp,
         flat |-> [p \in 1..Prod(shp) |->
                      At(a, [l \in 1..Len(shp) |->
                                IF l = k THEN Unravel(p - 1, shp)[l] + i
                                ELSE Unravel(p - 1, shp)[l]])]]

\* len(set(shape)) == 1
Symmetric(shp) == Cardinality({shp[k] : k \in 1..Len(shp)}) = 1

\* The comparison of the base case made strict.
AllFitStrict(a, shp) == \A k \in 1..Ndim(a) : a.shape[k] < shp[k]

\* all([k <= l for k, l in shapes])
AllFit(a, shp) == \A k \in 1..Ndim(a) : a.shape[k] <= shp[k]

\* The body of partition once the shapes are known to conform: the base
\* case, or the windows of the first axis longer than the part width, each
\* partitioned in turn.  PartitionWindows is the loop over range(i, end,
\* _shift) on axis k.
RECURSIVE PartitionBody(_, _, _)
RECURSIVE PartitionWindows(_, _, _, _, _)
PartitionBody(a, shp, sh) ==
    LET longer == {j \in 1..Ndim(a) : a.shape[j] > shp[j]}
    IN  IF AllFit(a, shp) THEN <<a>>
        ELSE IF longer = {} THEN <<>>
        ELSE PartitionWindows(a, shp, sh,
                              CHOOSE j \in longer : \A l \in longer : j <= l, 0)

\* The loop with the end of the overlapping case whatever the shift: the
\* trailing window narrower than the part is not visited.
RECURSIVE PartitionWindowsNoTail(_, _, _, _, _)
PartitionWindowsNoTail(a, shp, sh, k, i) ==
    LET n == a.shape[k]
        step == shp[k]
        _shift == IF sh <= 0 THEN step ELSE sh
        end == n - step + 1
    IN  IF i >= end THEN <<>>
        ELSE PartitionBody(Slice(a, k, i, i + step), shp, sh)
                \o PartitionWindowsNoTail(a, shp, sh, k, i + _shift)

\* The loop with the end of the non-overlapping case whatever the shift:
\* windows start at every multiple of the shift below the axis length.
RECURSIVE PartitionWindowsToEnd(_, _, _, _, _)
PartitionWindowsToEnd(a, shp, sh, k, i) ==
    LET n == a.shape[k]
        step == shp[k]
        _shift == IF sh <= 0 THEN step ELSE sh
        end == n
    IN  IF i >= end THEN <<>>
        ELSE PartitionBody(Slice(a, k, i, i + step), shp, sh)
                \o PartitionWindowsToEnd(a, shp, sh, k, i + _shift)

PartitionWindows(a, shp, sh, k, i) ==
    LET n == a.shape[k]
        step == shp[k]
        _shift == IF sh <= 0 THEN step ELSE sh
        end == IF sh > 0 THEN n - step + 1 ELSE n
    IN  IF i >= end THEN <<>>
        ELSE PartitionBody(Slice(a, k, i, i + step), shp, sh)
                \o PartitionWindows(a, shp, sh, k, i + _shift)

\* partition(x, shape, shift)
partition(a, shp, sh) ==
    IF ~Symmetric(shp) THEN ErrParts("AttributeError")
    ELSE LET xs == IF Len(shp) # Ndim(a) THEN Squeeze(a) ELSE a
         IN  IF Len(shp) # Ndim(xs) THEN ErrParts("AttributeError")
             ELSE OkParts(PartitionBody(xs, shp, sh))

\* partition_ignore without its test of the part's shape.
PartitionIgnoreKeepAll(a, shp) == partition(a, shp, 0)

\* partition_ignore(x, shape)
partition_ignore(a, shp) ==
    LET ps == partition(a, shp, 0)
    IN  IF ps.err # "" THEN ps
        ELSE OkParts(SelectSeq(ps.val, LAMBDA part : part.shape = shp))

RECURSIVE SeqMin(_)
SeqMin(s) == IF Len(s) = 1 THEN s[1] ELSE Min(Head(s), SeqMin(Tail(s)))

\* partition_shrink(x, shape, min_width); ShrinkParts is its loop over the
\* parts of partition(x, shape, shift=0), from the i-th on.
RECURSIVE partition_shrink(_, _, _)
RECURSIVE ShrinkParts(_, _, _, _)
partition_shrink(a, shp, mw) ==
    LET ps == partition(a, shp, 0)
    IN  IF ps.err # "" THEN ps ELSE ShrinkParts(ps.val, shp, mw, 1)

ShrinkParts(ps, shp, mw, i) ==
    IF i > Len(ps) THEN OkParts(<<>>)
    ELSE LET part == ps[i]
             part_min_width == SeqMin(part.shape)
             _shape == [k \in 1..Len(shp) |-> part_min_width]
             mine == IF part.shape = shp THEN OkParts(<<part>>)
                     ELSE IF part_min_width >= mw
                          THEN partition_shrink(part, _shape, mw)
                          ELSE OkParts(<<>>)
             rest == ShrinkParts(ps, shp, mw, i + 1)
         IN  IF mine.err # "" THEN mine
             ELSE IF rest.err # "" THEN rest
             ELSE OkParts(mine.val \o rest.val)

(***************************************************************************)
(* stages.py: the lookup stage.  The reference dataset ctm is a function   *)
(* from string keys to CTM values.  The result of consuming lookup(parts,  *)
(* ctm) is the pairs it yielded and, if it raised, the exception and the   *)
(* key its message names.                                                  *)
(***************************************************************************)
OkPairs(ps) == [err |-> "", key |-> <<>>, val |-> ps]
ErrPairs(e, k, ps) == [err |-> e, key |-> k, val |-> ps]

HasSep(k) == \E i \in 1..Len(k) : k[i] = Sep

\* key.lstrip('0')
RECURSIVE Lstrip0(_)
Lstrip0(k) ==
    IF Len(k) > 0 /\ Head(k) = "0" THEN Lstrip0(Tail(k)) ELSE k

\* The try block of lookup for one key.  The default handed to ctm.get is
\* evaluated before the call, so ctm[key.lstrip('0')] is read first.
LookupKey(k, table) ==
    IF HasSep(k)
    THEN IF k \in DOMAIN table THEN OkInt(table[k]) ELSE ErrInt("KeyError")
    ELSE IF Lstrip0(k) \notin DOMAIN table THEN ErrInt("KeyError")
         ELSE IF k \in DOMAIN table THEN OkInt(table[k])
         ELSE OkInt(table[Lstrip0(k)])

\* lookup(parts, ctm), from the i-th part on, with the pairs yielded so far.
RECURSIVE LookupFrom(_, _, _, _)
LookupFrom(ps, table, i, out) ==
    IF i > Len(ps) THEN OkPairs(out)
    ELSE LET k == string_from_array(ps[i])
             cmx == LookupKey(k.val, table)
         IN  IF k.err # "" THEN ErrPairs(k.err, <<>>, out)
             ELSE IF cmx.err # "" THEN ErrPairs("KeyError", k.val, out)
             ELSE LookupFrom(ps, table, i + 1, Append(out, <<k.val, cmx.val>>))

lookup(ps, table) == LookupFrom(ps, table, 1, <<>>)

(***************************************************************************)
(* stages.py: the aggregate stage.  CTM values are integers here and a BDM *)
(* value is the real number int + log2(odd), with odd an odd positive      *)
(* integer: this form is unique, and sums of CTM values and of log2 of     *)
(* positive integers stay in it.                                           *)
(***************************************************************************)
RInt(v) == [int |-> v, odd |-> 1]
RAdd(a, b) == [int |-> a.int + b.int, odd |-> a.odd * b.odd]

\* np.log2(n) for an integer n >= 1
RECURSIVE Log2(_)
Log2(n) ==
    IF n % 2 = 0 THEN RAdd(RInt(1), Log2(n \div 2)) ELSE [int |-> 0, odd |-> n]

OkBdm(v) == [err |-> "", key |-> <<>>, val |-> v]
ErrBdm(e, k) == [err |-> e, key |-> k, val |-> RInt(0)]

\* counter.update([item]) counting by the CTM value alone.
CounterUpdateByValue(counter, item) ==
    IF \E i \in 1..Len(counter) : counter[i].item[2] = item[2]
    THEN [i \in 1..Len(counter) |->
             IF counter[i].item[2] = item[2]
             THEN [item |-> counter[i].item, n |-> counter[i].n + 1]
             ELSE counter[i]]
    ELSE Append(counter, [item |-> item, n |-> 1])

\* counter.update([item]): a Counter is its items in insertion order.
CounterUpdate(counter, item) ==
    IF \E i \in 1..Len(counter) : counter[i].item = item
    THEN [i \in 1..Len(counter) |->
             IF counter[i].item = item
             THEN [item |-> counter[i].item, n |-> counter[i].n + 1]
             ELSE counter[i]]
    ELSE Append(counter, [item |-> item, n |-> 1])

\* for key, ctm in ctms: counter.update([ (key, ctm) ])
RECURSIVE CountLoop(_, _, _)
CountLoop(pairs, i, counter) ==
    IF i > Len(pairs) THEN counter
    ELSE CountLoop(pairs, i + 1, CounterUpdate(counter, pairs[i]))

\* for key, n in counter.items(): bdm += ctm + np.log2(n)
RECURSIVE SumLoop(_, _, _)
SumLoop(counter, i, acc) ==
    IF i > Len(counter) THEN acc
    ELSE SumLoop(counter, i + 1,
                 RAdd(acc, RAdd(RInt(counter[i].item[2]), Log2(counter[i].n))))

\* aggregate(ctms) on the pairs of a lookup that may have raised: the
\* exception passes through the loop that consumes the pairs.
aggregate(pairs) ==
    IF pairs.err # "" THEN ErrBdm(pairs.err, pairs.key)
    ELSE OkBdm(SumLoop(CountLoop(pairs.val, 1, <<>>), 1, RInt(0)))

(***************************************************************************)
(* bdm.py: BDM.complexity.  A call binds its keyword arguments to the      *)
(* parameters of the function called, and raises TypeError for a keyword   *)
(* the function does not take.                                             *)
(***************************************************************************)
\* def lookup(parts, ctm)
LookupParams == {"parts", "ctm"}

\* self.lookup(parts, self._ctm, base=self.base)
LookupCallKeywords == {"base"}

\* BDM(...).complexity(x) with the default stage functions, ctm_shape = shp
\* and _ctm = table.
complexity(a, shp, table, b) ==
    IF ~(LookupCallKeywords \subseteq LookupParams) THEN ErrBdm("TypeError", <<>>)
    ELSE LET ps == partition_ignore(a, shp)
         IN  IF ps.err # "" THEN ErrBdm(ps.err, <<>>)
             ELSE aggregate(lookup(ps.val, table))

(***************************************************************************)
(* Input domains.                                                          *)
(***************************************************************************)
Bases == 2..MaxBase
Symbols == 0..(MaxBase - 1)

Shapes ==
    {s \in UNION {[1..d -> 0..MaxSize] : d \in 1..MaxNdim} : Prod(s) <= MaxSize}

ArraysOfShape(s) == {[shape |-> s, flat |-> f] : f \in [1..Prod(s) -> Symbols]}

Arrays == UNION {ArraysOfShape(s) : s \in Shapes}

MinLengths == {None} \cup 0..(MaxSize + 1)

Unset == "unset"

\* The inputs of the partition stage: every shape up to the bounds, filled
\* with distinct integers (np.arange(size).reshape(shape)), so that two
\* parts are equal only if they are the same region of the array.
PartShapes ==
    {s \in UNION {[1..d -> 0..MaxLen] : d \in 1..MaxPartNdim} :
        Prod(s) <= MaxCells}

Arange(s) == [shape |-> s, flat |-> [p \in 1..Prod(s) |-> p - 1]]

PartArrays == {Arange(s) : s \in PartShapes}

\* The part shapes: the symmetric ones and, for the check of symmetry, the
\* ones whose last width is one more than the others.
BlockShapes ==
    {[k \in 1..d |-> IF k = d THEN w + a ELSE w] :
        d \in 1..MaxPartNdim, w \in 1..MaxWidth, a \in {0, 1}}

Shifts == (0 - 1)..MaxShift

(***************************************************************************)
(* Specification of the encoders: every call is one step.                  *)
(***************************************************************************)
IdleEncoding ==
    /\ base = 2
    /\ code = ErrInt(Unset)
    /\ min_length = None
    /\ decoded = ErrArr(Unset)
    /\ key = ErrStr(Unset)
    /\ fromstr = ErrArr(Unset)

\* No call is under way: no Counter and no caller.
IdleCall ==
    /\ counts = <<>>
    /\ caller = ""

IdleLookup ==
    /\ ctm = <<>>
    /\ ctms = ErrPairs(Unset, <<>>, <<>>)
    /\ bdm = ErrBdm(Unset, <<>>)
    /\ IdleCall

IdleStages ==
    /\ shift = 0
    /\ min_width = 0
    /\ parts = ErrParts(Unset)
    /\ IdleLookup


InitEncoding ==
    /\ base \in Bases
    /\ decoded = ErrArr(Unset)
    /\ key = ErrStr(Unset)
    /\ fromstr = ErrArr(Unset)
    /\ shape = <<>>
    /\ min_length = None
    /\ IdleStages
    /\ \/ pc = "init" /\ x \in Arrays /\ code = ErrInt(Unset)
       \/ pc = "code" /\ x = NoArray /\ code \in {OkInt(c) : c \in 0..MaxCode}

\* code = encode_array(x, base)
EncodeArrayOp ==
    /\ pc = "init"
    /\ code' = encode_array(x, base)
    /\ pc' = "encode_array"
    /\ UNCHANGED <<x, base, min_length, decoded, key, fromstr, shape,
                   shift, min_width, parts, ctm, ctms, bdm,
                   counts, caller>>

\* decode_sequence(code, base, min_length): of a given code with any
\* min_length, or of the code of x with min_length = x.size.
DecodeSequenceOp ==
    /\ pc \in {"code", "encode_array"}
    /\ code.err = ""
    /\ \E m \in (IF pc = "code" THEN MinLengths ELSE {Size(x)}) :
          /\ min_length' = m
          /\ decoded' = OkArr(decode_sequence(code.val, base, m))
    /\ pc' = IF pc = "code" THEN "decode_sequence" ELSE "roundtrip_sequence"
    /\ UNCHANGED <<x, base, code, key, fromstr, shape,
                   shift, min_width, parts, ctm, ctms, bdm,
                   counts, caller>>

\* decode_array(code, shape, base): of a given code with any shape, or of
\* the code of x with shape = x.shape.
DecodeArrayOp ==
    /\ pc \in {"code", "encode_array"}
    /\ code.err = ""
    /\ \E shp \in (IF pc = "code" THEN Shapes ELSE {x.shape}) :
          /\ shape' = shp
          /\ decoded' = decode_array(code.val, shp, base)
    /\ pc' = IF pc = "code" THEN "decode_array" ELSE "roundtrip_array"
    /\ UNCHANGED <<x, base, code, min_length, key, fromstr,
                   shift, min_width, parts, ctm, ctms, bdm,
                   counts, caller>>

\* key = string_from_array(x)
StringFromArrayOp ==
    /\ pc = "init"
    /\ key' = string_from_array(x)
    /\ pc' = "string_from_array"
    /\ UNCHANGED <<x, base, code, min_length, decoded, fromstr, shape,
                   shift, min_width, parts, ctm, ctms, bdm,
                   counts, caller>>

\* array_from_string(key), without a shape or with the shape of x.
ArrayFromStringOp ==
    /\ pc = "string_from_array"
    /\ key.err = ""
    /\ \E shp \in {<<>>, x.shape} :
          /\ shape' = shp
          /\ fromstr' = array_from_string(key.val, shp)
    /\ pc' = "array_from_string"
    /\ UNCHANGED <<x, base, code, min_length, decoded, key,
                   shift, min_width, parts, ctm, ctms, bdm,
                   counts, caller>>

NextEncoding ==
    \/ EncodeArrayOp
    \/ DecodeSequenceOp
    \/ DecodeArrayOp
    \/ StringFromArrayOp
    \/ ArrayFromStringOp

SpecEncoding == InitEncoding /\ [][NextEncoding]_vars

(***************************************************************************)
(* Specification of the partition stage: one call of a partition function  *)
(* on an array and a part shape.                                           *)
(***************************************************************************)
InitPartition ==
    /\ pc = "init"
    /\ x \in PartArrays
    /\ shape \in BlockShapes
    /\ shift = 0
    /\ min_width = 0
    /\ parts = ErrParts(Unset)
    /\ IdleEncoding
    /\ IdleLookup

\* parts = list(partition(x, shape, shift))
PartitionOp ==
    /\ pc = "init"
    /\ \E sh \in Shifts :
          /\ shift' = sh
          /\ parts' = partition(x, shape, sh)
    /\ pc' = "partition"
    /\ UNCHANGED <<x, base, code, min_length, decoded, key, fromstr, shape,
                   min_width, ctm, ctms, bdm,
                   counts, caller>>

\* parts = list(partition_ignore(x, shape))
PartitionIgnoreOp ==
    /\ pc = "init"
    /\ parts' = partition_ignore(x, shape)
    /\ pc' = "partition_ignore"
    /\ UNCHANGED <<x, base, code, min_length, decoded, key, fromstr, shape,
                   shift, min_width, ctm, ctms, bdm,
                   counts, caller>>

\* parts = list(partition_shrink(x, shape, min_width))
PartitionShrinkOp ==
    /\ pc = "init"
    /\ \E mw \in 1..MaxWidth :
          /\ min_width' = mw
          /\ parts' = partition_shrink(x, shape, mw)
    /\ pc' = "partition_shrink"
    /\ UNCHANGED <<x, base, code, min_length, decoded, key, fromstr, shape,
                   shift, ctm, ctms, bdm,
                   counts, caller>>

NextPartition ==
    \/ PartitionOp
    \/ PartitionIgnoreOp
    \/ PartitionShrinkOp

SpecPartition == InitPartition /\ [][NextPartition]_vars

(***************************************************************************)
(* Specification of the pipeline: a BDM object with part shape `shape` and *)
(* reference dataset ctm, and a binary dataset x.  Either complexity(x) is *)
(* called, or the stages are run by hand: lookup on the parts of           *)
(* partition_ignore, then aggregate on its pairs.                          *)
(***************************************************************************)
\* The binary strings of length n, and of length up to n.
BinStrings(n) == [1..n -> {"0", "1"}]
BinStringsUpTo(n) == UNION {BinStrings(m) : m \in 0..n}

\* The keys of the 2 x 2 binary matrices.
MatrixKeys == {r1 \o <<Sep>> \o r2 : r1 \in BinStrings(2), r2 \in BinStrings(2)}

\* A CTM value for every key: distinct for distinct keys, or the same for all.
RECURSIVE BinValue(_)
BinValue(k) ==
    IF Len(k) = 0 THEN 1
    ELSE 2 * BinValue(SubSeq(k, 1, Len(k) - 1))
            + (IF k[Len(k)] = "1" THEN 1 ELSE 0)

CtmValue(kind, k) == IF kind = "distinct" THEN BinValue(k) ELSE MaxCtm

\* The reference datasets over a set of keys: all but at most MaxMissing keys.
Tables(keys) ==
    {[k \in keys \ missing |-> CtmValue(kind, k)] :
        missing \in {m \in SUBSET keys : Cardinality(m) <= MaxMissing},
        kind \in {"distinct", "same"}}

BinarySequences ==
    UNION {{[shape |-> <<n>>, flat |-> f] : f \in [1..n -> {0, 1}]} :
              n \in 0..MaxSeqLen}

BinaryMatrices ==
    UNION {{[shape |-> <<2, c>>, flat |-> f] : f \in [1..(2 * c) -> {0, 1}]} :
              c \in 2..3}

InitBDM ==
    /\ pc = "init"
    /\ \/ /\ x \in BinarySequences
          /\ \E w \in 1..MaxCtmWidth :
                /\ shape = <<w>>
                /\ ctm \in Tables(BinStringsUpTo(w))
       \/ /\ x \in BinaryMatrices
          /\ shape = <<2, 2>>
          /\ ctm \in Tables(MatrixKeys)
    /\ shift = 0
    /\ min_width = 0
    /\ parts = ErrParts(Unset)
    /\ ctms = ErrPairs(Unset, <<>>, <<>>)
    /\ bdm = ErrBdm(Unset, <<>>)
    /\ IdleCall
    /\ IdleEncoding

\* bdm = BDM.complexity(x)
ComplexityOp ==
    /\ pc = "init"
    /\ bdm' = complexity(x, shape, ctm, base)
    /\ pc' = "complexity"
    /\ UNCHANGED <<x, base, code, min_length, decoded, key, fromstr, shape,
                   shift, min_width, parts, ctm, ctms,
                   counts, caller>>

\* ctms = lookup(partition_ignore(x, shape), ctm), consumed to its end
LookupOp ==
    /\ pc = "init"
    /\ parts' = partition_ignore(x, shape)
    /\ ctms' = lookup(parts'.val, ctm)
    /\ pc' = "lookup"
    /\ UNCHANGED <<x, base, code, min_length, decoded, key, fromstr, shape,
                   shift, min_width, ctm, bdm,
                   counts, caller>>

\* bdm = aggregate(ctms)
AggregateOp ==
    /\ pc = "lookup"
    /\ bdm' = aggregate(ctms)
    /\ pc' = "aggregate"
    /\ UNCHANGED <<x, base, code, min_length, decoded, key, fromstr, shape,
                   shift, min_width, parts, ctm, ctms,
                   counts, caller>>

NextBDM ==
    \/ ComplexityOp
    \/ LookupOp
    \/ AggregateOp

SpecBDM == InitBDM /\ [][NextBDM]_vars

(***************************************************************************)
(* Specification of the aggregate stage alone: aggregate on any sequence   *)
(* of (key, value) pairs.                                                  *)
(***************************************************************************)
PairSeqs ==
    UNION {[1..n -> BinStrings(1) \X (1..MaxCtm)] : n \in 0..MaxPairs}

InitAggregate ==
    /\ pc = "lookup"
    /\ ctms \in {OkPairs(ps) : ps \in PairSeqs}
    /\ x = NoArray
    /\ shape = <<>>
    /\ shift = 0
    /\ min_width = 0
    /\ parts = ErrParts(Unset)
    /\ ctm = <<>>
    /\ bdm = ErrBdm(Unset, <<>>)
    /\ IdleCall
    /\ IdleEncoding

NextAggregate == AggregateOp

SpecAggregate == InitAggregate /\ [][NextAggregate]_vars

(***************************************************************************)
(* Specification of the pipeline step by step.  partition_ignore and       *)
(* lookup are generators: calling one runs none of its body, and each      *)
(* request for its next value runs it up to its next yield.  Here parts    *)
(* holds the blocks the partitioner has yielded so far, ctms the pairs     *)
(* lookup has yielded so far and counts the Counter of aggregate; caller  *)
(* tells complexity(x) from the stages composed by hand,                   *)
(* aggregate(lookup(partition_ignore(x, shape), ctm)).                     *)
(***************************************************************************)
InitPipeline ==
    /\ pc = "init"
    /\ x \in BinarySequences
    /\ \E w \in 1..MaxCtmWidth :
          /\ shape = <<w>>
          /\ ctm \in Tables(BinStringsUpTo(w))
    /\ shift = 0
    /\ min_width = 0
    /\ parts = ErrParts(Unset)
    /\ ctms = ErrPairs(Unset, <<>>, <<>>)
    /\ bdm = ErrBdm(Unset, <<>>)
    /\ IdleCall
    /\ IdleEncoding

\* complexity(x) up to its call of lookup: the partitioner is created, and
\* the call of lookup binds its arguments.  Were base a parameter of lookup,
\* aggregate would start on the generator.
ComplexityCall ==
    /\ pc = "init"
    /\ caller' = "complexity"
    /\ parts' = OkParts(<<>>)
    /\ IF ~(LookupCallKeywords \subseteq LookupParams)
       THEN /\ bdm' = ErrBdm("TypeError", <<>>)
            /\ pc' = "return"
            /\ UNCHANGED ctms
       ELSE /\ ctms' = OkPairs(<<>>)
            /\ pc' = "request_part"
            /\ UNCHANGED bdm
    /\ UNCHANGED <<x, base, code, min_length, decoded, key, fromstr, shape,
                   shift, min_width, ctm, counts>>

\* aggregate(lookup(partition_ignore(x, shape), ctm)) up to the first
\* request of aggregate's loop: both generators are created and the
\* Counter is empty.
StagesCall ==
    /\ pc = "init"
    /\ caller' = "stages"
    /\ parts' = OkParts(<<>>)
    /\ ctms' = OkPairs(<<>>)
    /\ pc' = "request_part"
    /\ UNCHANGED <<x, base, code, min_length, decoded, key, fromstr, shape,
                   shift, min_width, ctm, bdm, counts>>

\* aggregate's loop asks lookup for a pair, and lookup's loop asks the
\* partitioner for a part: the partitioner yields its next block.
RequestPart ==
    /\ pc = "request_part"
    /\ LET blocks == partition_ignore(x, shape)
           i == Len(parts.val) + 1
       IN  /\ blocks.err = ""
           /\ i <= Len(blocks.val)
           /\ parts' = OkParts(Append(parts.val, blocks.val[i]))
    /\ pc' = "lookup_part"
    /\ UNCHANGED <<x, base, code, min_length, decoded, key, fromstr, shape,
                   shift, min_width, ctm, ctms, bdm, counts, caller>>

\* lookup keys the part and looks the key up: it yields the pair, or raises
\* KeyError, which ends aggregate too.
LookupPart ==
    /\ pc = "lookup_part"
    /\ LET k == string_from_array(parts.val[Len(parts.val)])
           cmx == LookupKey(k.val, ctm)
       IN  IF k.err # "" \/ cmx.err # ""
           THEN /\ ctms' = ErrPairs(IF k.err # "" THEN k.err ELSE "KeyError",
                                     k.val, ctms.val)
                /\ bdm' = ErrBdm(ctms'.err, k.val)
                /\ pc' = "return"
           ELSE /\ ctms' = OkPairs(Append(ctms.val, <<k.val, cmx.val>>))
                /\ pc' = "count_pair"
                /\ UNCHANGED bdm
    /\ UNCHANGED <<x, base, code, min_length, decoded, key, fromstr, shape,
                   shift, min_width, parts, ctm, counts, caller>>

\* counter.update([(key, ctm)]) on the pair just yielded
CountPair ==
    /\ pc = "count_pair"
    /\ counts' = CounterUpdate(counts, ctms.val[Len(ctms.val)])
    /\ pc' = "request_part"
    /\ UNCHANGED <<x, base, code, min_length, decoded, key, fromstr, shape,
                   shift, min_width, parts, ctm, ctms, bdm, caller>>

\* The partitioner has no more block (or raises): lookup ends, the loop of
\* aggregate ends, and aggregate returns the sum over the Counter.
AggregateReturn ==
    /\ pc = "request_part"
    /\ LET blocks == partition_ignore(x, shape)
       IN  /\ blocks.err # "" \/ Len(parts.val) >= Len(blocks.val)
           /\ bdm' = IF blocks.err # "" THEN ErrBdm(blocks.err, <<>>)
                     ELSE OkBdm(SumLoop(counts, 1, RInt(0)))
    /\ pc' = "return"
    /\ UNCHANGED <<x, base, code, min_length, decoded, key, fromstr, shape,
                   shift, min_width, parts, ctm, ctms, counts, caller>>

NextPipeline ==
    \/ ComplexityCall
    \/ StagesCall
    \/ RequestPart
    \/ LookupPart
    \/ CountPair
    \/ AggregateReturn

SpecPipeline == InitPipeline /\ [][NextPipeline]_vars

(***************************************************************************)
(* Properties of the encoders.                                             *)
(***************************************************************************)
ValidSymbols(a, b) == \A i \in 1..Size(a) : a.flat[i] \in 0..(b - 1)

\* The value of the digit sequence f in base b, first digit most significant.
RECURSIVE PositionalSum(_, _, _)
PositionalSum(f, b, i) ==
    IF i > Len(f) THEN 0
    ELSE f[i] * Pow(b, Len(f) - i) + PositionalSum(f, b, i + 1)

\* The number of digits of c in base b (0 for c = 0), and the digits.
NumDigits(c, b) ==
    CHOOSE n \in 0..(c + 1) : Pow(b, n) > c /\ (n = 0 \/ Pow(b, n - 1) <= c)

Digits(c, b) ==
    [i \in 1..NumDigits(c, b) |-> (c \div Pow(b, NumDigits(c, b) - i)) % b]

LeftPadded(c, b, m) ==
    IF m # None /\ NumDigits(c, b) < m
    THEN Zeros(m - NumDigits(c, b)) \o Digits(c, b)
    ELSE Digits(c, b)

\* C6: decoding the code of an array with symbols in [0, base), with
\* min_length = its size (and its shape), returns the array, and the code
\* lies in 0 .. base^size - 1.
C6_RoundTrip ==
    /\ (pc = "encode_array" /\ ValidSymbols(x, base)) =>
          /\ code.err = ""
          /\ code.val \in 0..(Pow(base, Size(x)) - 1)
    /\ (pc = "roundtrip_array" /\ ValidSymbols(x, base)) => decoded = OkArr(x)
    /\ (pc = "roundtrip_sequence" /\ ValidSymbols(x, base) /\ Ndim(x) = 1) =>
          /\ min_length = Size(x)
          /\ decoded = OkArr(x)

C6_Witness ==
    /\ pc = "roundtrip_array"
    /\ x.shape = <<2, 2>>
    /\ x.flat[1] = 0 /\ x.flat[2] = 0 /\ x.flat[4] = 2
    /\ base = 3
    /\ decoded = OkArr(x)

C8_Original ==
    (pc = "array_from_string" /\ shape = <<>> /\ Size(x) > 0) =>
        fromstr = OkArr(x)

\* The shape array_from_string gives back: one row per run along the last
\* axis, and a 1-D array when there is a single run.
Collapsed(shp) ==
    LET r == Prod(SubSeq(shp, 1, Len(shp) - 1))
    IN  IF r = 1 THEN <<shp[Len(shp)]>> ELSE <<r, shp[Len(shp)]>>

\* C8 amended: without a shape the round trip keeps the elements in row-major
\* order and returns shape (rows, last axis), 1-D for a single row; so it
\* returns the array itself exactly for 1-D arrays and 2-D arrays with at
\* least two rows.  With shape = the array's shape it returns the array.
C8_Amended ==
    /\ (pc = "array_from_string" /\ shape = <<>>
            /\ (Size(x) > 0 \/ Ndim(x) = 1)) =>
          /\ fromstr.err = ""
          /\ fromstr.val.flat = x.flat
          /\ fromstr.val.shape = Collapsed(x.shape)
          /\ (fromstr = OkArr(x)) <=>
                (Ndim(x) = 1 \/ (Ndim(x) = 2 /\ x.shape[1] >= 2))
    /\ (pc = "array_from_string" /\ shape # <<>>) => fromstr = OkArr(x)

C8_Witness ==
    /\ pc = "array_from_string"
    /\ shape = <<>>
    /\ x.shape = <<2, 1, 2>>
    /\ fromstr.err = ""
    /\ fromstr.val.shape = <<2, 2>>

Conformable == Symmetric(shape) /\ Len(shape) = Ndim(x)

\* x[g_1*w:(g_1+1)*w, ..., g_d*w:(g_d+1)*w]
Block(a, g, w) ==
    LET shp == [k \in 1..Ndim(a) |-> w]
    IN  [shape |-> shp,
         flat |-> [q \in 1..Prod(shp) |->
                      At(a, [k \in 1..Ndim(a) |->
                                g[k] * w + Unravel(q - 1, shp)[k]])]]

\* floor(n_k / w) for every axis k
Grid(a, w) == [k \in 1..Ndim(a) |-> a.shape[k] \div w]

\* C3: partition_ignore yields, in row-major order of the grid indices, the
\* blocks x[i_0*w:(i_0+1)*w, ...] with 0 <= i_k < floor(n_k / w), each of the
\* part shape, and nothing else; when w divides every n_k the blocks hold as
\* many elements as the array.
C3_PartitionIgnore ==
    (pc = "partition_ignore" /\ Conformable) =>
        LET w == shape[1]
            grid == Grid(x, w)
        IN  /\ parts.err = ""
            /\ Len(parts.val) = Prod(grid)
            /\ \A p \in 1..Len(parts.val) :
                  /\ parts.val[p].shape = shape
                  /\ p <= Prod(grid) =>
                        parts.val[p] = Block(x, Unravel(p - 1, grid), w)
            /\ (\A k \in 1..Ndim(x) : x.shape[k] % w = 0) =>
                  Len(parts.val) * Prod(shape) = Size(x)

C3_Witness ==
    /\ pc = "partition_ignore"
    /\ x.shape = <<5, 5>>
    /\ shape = <<2, 2>>
    /\ parts.err = ""
    /\ Len(parts.val) = 4
    /\ parts.val[4].flat = <<12, 13, 17, 18>>

\* C10 as stated: under each policy a (non-empty) array with no axis longer
\* than the part width is yielded whole, as the only block.
C10_Original ==
    (pc \in {"partition", "partition_ignore", "partition_shrink"}
        /\ Conformable /\ AllFit(x, shape) /\ Size(x) > 0) =>
        parts = OkParts(<<x>>)

\* C10 amended: partition (the shift policy) yields such an array whole, as
\* the only block.  partition_ignore does so only when the array has exactly
\* the part shape, and yields nothing otherwise.  partition_shrink does so only
\* when the array has the part shape, or is symmetric with a width of at
\* least min_width; an array whose smallest axis is below min_width is then
\* dropped.
C10_Amended ==
    (Conformable /\ AllFit(x, shape)) =>
        /\ pc = "partition" => parts = OkParts(<<x>>)
        /\ pc = "partition_ignore" =>
              parts = OkParts(IF x.shape = shape THEN <<x>> ELSE <<>>)
        /\ pc = "partition_shrink" =>
              /\ parts.err = ""
              /\ (parts.val = <<x>>) <=>
                    \/ x.shape = shape
                    \/ Symmetric(x.shape) /\ x.shape[1] >= min_width
              /\ (x.shape # shape /\ SeqMin(x.shape) < min_width) =>
                    parts.val = <<>>

C10_Witness ==
    /\ pc = "partition_shrink"
    /\ x.shape = <<2, 3>>
    /\ shape = <<3, 3>>
    /\ min_width = 1
    /\ parts.err = ""
    /\ Len(parts.val) = 3

\* x[off_1 : off_1 + shp_1, ..., off_d : off_d + shp_d]
Window(a, off, shp) ==
    [shape |-> shp,
     flat |-> [q \in 1..Prod(shp) |->
                  At(a, [k \in 1..Ndim(a) |-> off[k] + Unravel(q - 1, shp)[k]])]]

\* The windows at the multiples of stride, one combination for each index
\* of the grid cnt, in row-major order of the indices (first axis slowest);
\* a window is cut at the end of the array, and is w wide at most.
Windows(a, cnt, stride, w) ==
    [p \in 1..Prod(cnt) |->
        LET g == Unravel(p - 1, cnt)
            off == [k \in 1..Ndim(a) |-> g[k] * stride]
        IN  Window(a, off,
                   [k \in 1..Ndim(a) |-> Min(w, a.shape[k] - off[k])])]

\* The blocks of partition_ignore, as C3 gives them.
FullBlocks(a, w) ==
    [p \in 1..Prod(Grid(a, w)) |-> Block(a, Unravel(p - 1, Grid(a, w)), w)]

\* ceil(n_k / w) for every axis k longer than w, and 1 for the others
CeilGrid(a, w) ==
    [k \in 1..Ndim(a) |->
        IF a.shape[k] > w THEN (a.shape[k] + w - 1) \div w ELSE 1]

\* C11 as stated: with shift <= 0 partition yields the blocks of
\* partition_ignore, all of the part shape and none narrower (stated for an
\* array with no axis shorter than the part width).
C11_Original ==
    (pc = "partition" /\ shift <= 0 /\ Conformable
        /\ \A k \in 1..Ndim(x) : x.shape[k] >= shape[k]) =>
        /\ parts = OkParts(FullBlocks(x, shape[1]))
        /\ \A p \in 1..Len(parts.val) : parts.val[p].shape = shape

\* C11 amended: with shift <= 0 partition yields non-overlapping windows with
\* stride equal to the part width w, in row-major order, INCLUDING the
\* leftover windows narrower than the part shape at the end of every axis
\* that w does not divide (and an axis no longer than w whole).  The parts of
\* the part shape among them are, in order, the blocks of partition_ignore;
\* the two sequences are equal exactly when every axis is a positive
\* multiple of w.
C11_Amended ==
    (pc = "partition" /\ shift <= 0 /\ Conformable) =>
        LET w == shape[1]
            full == SelectSeq(parts.val, LAMBDA part : part.shape = shape)
        IN  /\ parts = OkParts(Windows(x, CeilGrid(x, w), w, w))
            /\ full = FullBlocks(x, w)
            /\ full = partition_ignore(x, shape).val
            /\ (parts.val = full) <=>
                  \A k \in 1..Ndim(x) : x.shape[k] >= w /\ x.shape[k] % w = 0

C11_Witness ==
    /\ pc = "partition"
    /\ shift = 0 - 1
    /\ x.shape = <<3, 3>>
    /\ shape = <<2, 2>>
    /\ Len(parts.val) = 4
    /\ parts.val[2] = [shape |-> <<2, 1>>, flat |-> <<2, 5>>]
    /\ parts.val[4] = [shape |-> <<1, 1>>, flat |-> <<8>>]

\* The number of x in range(0, end, step)
RangeLen(end, step) == IF end <= 0 THEN 0 ELSE (end - 1) \div step + 1

\* C12 as stated: with shift > 0 the windows along an axis longer than the
\* part width w start at the multiples of shift up to n - w + 1 inclusive,
\* and the parts are all the combinations in row-major order.
C12_Original ==
    (pc = "partition" /\ shift > 0 /\ Conformable) =>
        LET w == shape[1]
            cnt == [k \in 1..Ndim(x) |->
                       IF x.shape[k] > w
                       THEN RangeLen(x.shape[k] - w + 2, shift) ELSE 1]
        IN  parts = OkParts(Windows(x, cnt, shift, w))

\* C12 amended: with shift > 0 the windows along an axis of length n longer
\* than the part width w start at the multiples of shift up to n - w
\* inclusive (below n - w + 1), so that every window is w wide; an axis no
\* longer than w is taken whole; the parts are all the combinations of the
\* per-axis windows in row-major order, first axis slowest.
C12_Amended ==
    (pc = "partition" /\ shift > 0 /\ Conformable) =>
        LET w == shape[1]
            cnt == [k \in 1..Ndim(x) |->
                       IF x.shape[k] > w
                       THEN RangeLen(x.shape[k] - w + 1, shift) ELSE 1]
        IN  /\ parts = OkParts(Windows(x, cnt, shift, w))
            /\ \A p \in 1..Len(parts.val) : \A k \in 1..Ndim(x) :
                  parts.val[p].shape[k] = Min(w, x.shape[k])

C12_Witness ==
    /\ pc = "partition"
    /\ shift = 1
    /\ x.shape = <<3, 3>>
    /\ shape = <<2, 2>>
    /\ Len(parts.val) = 4
    /\ parts.val[1].flat = <<0, 1, 3, 4>>
    /\ parts.val[2].flat = <<1, 2, 4, 5>>
    /\ parts.val[3].flat = <<3, 4, 6, 7>>
    /\ parts.val[4].flat = <<4, 5, 7, 8>>

\* The values of the elements of an array
Elements(a) == {a.flat[q] : q \in 1..Len(a.flat)}

\* What the claim gives for the cells from the i-th on: a cell of the part
\* shape itself, a smaller one re-partitioned with its smallest dimension as
\* the width, or nothing when that dimension is below min_width.
RECURSIVE ShrinkOfCells(_, _, _, _)
ShrinkOfCells(cells, shp, mw, i) ==
    IF i > Len(cells) THEN <<>>
    ELSE LET cell == cells[i]
             m == SeqMin(cell.shape)
             mine == IF cell.shape = shp THEN <<cell>>
                     ELSE IF m < mw THEN <<>>
                     ELSE partition_shrink(cell, [k \in 1..Len(shp) |-> m], mw).val
         IN  mine \o ShrinkOfCells(cells, shp, mw, i + 1)

\* What C13 says of the blocks partition_shrink yields, but for the least
\* width of a block, which is left to lo(b).  (x holds its own flat indices,
\* so that a shared element shows as a shared value.)
ShrinkBlocks(lo(_)) ==
    LET w == shape[1]
        cells == Windows(x, CeilGrid(x, w), w, w)
        blocks == parts.val
    IN  /\ parts.err = ""
        /\ blocks = ShrinkOfCells(cells, shape, min_width, 1)
        /\ SelectSeq(blocks, LAMBDA b : b.shape = shape) = FullBlocks(x, w)
        /\ \A p \in 1..Len(blocks) :
              LET b == blocks[p]
              IN  /\ Symmetric(b.shape)
                  /\ Len(b.shape) = Ndim(x)
                  /\ b.shape[1] >= lo(b)
                  /\ b.shape[1] <= w
                  /\ \E q \in 1..Size(x) :
                        b = Window(x, Unravel(q - 1, x.shape), b.shape)
        /\ \A p, q \in 1..Len(blocks) :
              p # q => Elements(blocks[p]) \cap Elements(blocks[q]) = {}
        /\ (min_width = 1 /\ Size(x) > 0) =>
              UNION {Elements(blocks[p]) : p \in 1..Len(blocks)} = Elements(x)

\* C13: partition_shrink yields every block of the part shape, and for every
\* leftover cell smaller than the part shape the blocks of its re-partition
\* with the symmetric shape whose width is the cell's smallest dimension, the
\* cell being dropped exactly when that dimension is below min_width.  Every
\* yielded block is a symmetric window of x with a width between min_width
\* and the width of the part shape; the blocks are pairwise disjoint; and
\* with min_width = 1 every element of a non-empty array lies in exactly one
\* of them.
C13_PartitionShrink ==
    (pc = "partition_shrink" /\ Conformable /\ x = Arange(x.shape)) =>
        ShrinkBlocks(LAMBDA b : min_width)

\* The same with the least width required only of the blocks narrower than
\* the part shape: this much holds of every call.
C13_ExceptPartShape ==
    (pc = "partition_shrink" /\ Conformable /\ x = Arange(x.shape)) =>
        ShrinkBlocks(LAMBDA b : IF b.shape = shape THEN 1 ELSE min_width)

C13_ShrinkExample ==
    /\ pc = "partition_shrink"
    /\ x.shape = <<5, 5>>
    /\ shape = <<3, 3>>
    /\ min_width = 2
    /\ Len(parts.val) = 4
    /\ parts.val[1].shape = <<3, 3>>
    /\ parts.val[2] = [shape |-> <<2, 2>>, flat |-> <<3, 4, 8, 9>>]
    /\ parts.val[3] = [shape |-> <<2, 2>>, flat |-> <<15, 16, 20, 21>>]
    /\ parts.val[4] = [shape |-> <<2, 2>>, flat |-> <<18, 19, 23, 24>>]

(***************************************************************************)
(* Properties of the lookup and aggregate stages and of complexity().      *)
(***************************************************************************)
KeyOf(a) == string_from_array(a).val

\* C1: complexity(x) returns aggregate(lookup(partition_ignore(x, ctm_shape),
\* table)); for an array that is exactly one block whose key is in the table
\* with value v it returns v and does not fail.  Stated for that array.
C1_Complexity ==
    (pc = "complexity" /\ x.shape = shape /\ KeyOf(x) \in DOMAIN ctm) =>
        /\ bdm = aggregate(lookup(partition_ignore(x, shape).val, ctm))
        /\ bdm = OkBdm(RInt(ctm[KeyOf(x)]))

\* The distinct pairs of a sequence of pairs and how often each occurs.
Groups(pairs) == {pairs[i] : i \in 1..Len(pairs)}
Multiplicity(pairs, g) == Cardinality({i \in 1..Len(pairs) : pairs[i] = g})

RECURSIVE SumOverGroups(_, _)
SumOverGroups(pairs, gs) ==
    IF gs = {} THEN RInt(0)
    ELSE LET g == CHOOSE h \in gs : TRUE
         IN  RAdd(RAdd(RInt(g[2]), Log2(Multiplicity(pairs, g))),
                  SumOverGroups(pairs, gs \ {g}))

\* C2: aggregate returns the sum over the distinct (key, value) groups of
\* value + log2(multiplicity): 0 for no pair, c for one pair (k, c),
\* c + log2(n) for n identical pairs, and 2c for two pairs with different keys
\* and the same value c.
C2_Aggregate ==
    (pc = "aggregate" /\ ctms.err = "") =>
        LET pairs == ctms.val
            n == Len(pairs)
        IN  /\ bdm = OkBdm(SumOverGroups(pairs, Groups(pairs)))
            /\ n = 0 => bdm = OkBdm(RInt(0))
            /\ n = 1 => bdm = OkBdm(RInt(pairs[1][2]))
            /\ (n >= 1 /\ \A i \in 1..n : pairs[i] = pairs[1]) =>
                  bdm = OkBdm(RAdd(RInt(pairs[1][2]), Log2(n)))
            /\ (n = 2 /\ pairs[1][1] # pairs[2][1] /\ pairs[1][2] = pairs[2][2]) =>
                  /\ bdm = OkBdm(RInt(2 * pairs[1][2]))
                  /\ pairs[1][2] # 1 =>
                        bdm # OkBdm(RAdd(RInt(pairs[1][2]), Log2(2)))

C2_Witness ==
    /\ pc = "aggregate"
    /\ Len(ctms.val) = 3
    /\ \A i \in 1..3 : ctms.val[i] = <<<<"1">>, 2>>
    /\ bdm = OkBdm([int |-> 2, odd |-> 3])

\* C4: for a block whose key has no separator, lookup gives table[key] when
\* the key is in the table, whatever else the table holds, and the entry of
\* the key stripped of its leading zeros only when the key itself is absent.
C4_ExactKeyFirst ==
    (pc = "lookup" /\ parts.err = "") =>
        \A i \in 1..Len(parts.val) :
            LET k == KeyOf(parts.val[i])
            IN  (Len(ctms.val) >= i - 1 /\ ~HasSep(k)) =>
                    /\ k \in DOMAIN ctm =>
                          /\ Len(ctms.val) >= i
                          /\ ctms.val[i] = <<k, ctm[k]>>
                    /\ (k \notin DOMAIN ctm /\ Lstrip0(k) \in DOMAIN ctm) =>
                          /\ Len(ctms.val) >= i
                          /\ ctms.val[i] = <<k, ctm[Lstrip0(k)]>>

\* A key is absent from the table, after the fallback for keys without a
\* separator.
Absent(k) ==
    IF HasSep(k) THEN k \notin DOMAIN ctm
    ELSE k \notin DOMAIN ctm /\ Lstrip0(k) \notin DOMAIN ctm

\* C5: when the key of some block is absent from the table, lookup raises
\* KeyError naming the key of the first such block, and complexity() ends
\* with that error and no number.
C5_MissingKey ==
    LET ps == partition_ignore(x, shape).val
        absent == {i \in 1..Len(ps) : Absent(KeyOf(ps[i]))}
        first == CHOOSE i \in absent : \A j \in absent : i <= j
    IN  absent # {} =>
            /\ pc = "lookup" =>
                  ctms.err = "KeyError" /\ ctms.key = KeyOf(ps[first])
            /\ pc = "complexity" =>
                  bdm.err = "KeyError" /\ bdm.key = KeyOf(ps[first])

(***************************************************************************)
(* Properties of the pipeline step by step.                                *)
(***************************************************************************)
\* The number of pairs a Counter has counted
RECURSIVE Counted(_)
Counted(c) == IF Len(c) = 0 THEN 0 ELSE Head(c).n + Counted(Tail(c))

\* The stages are consumed in turn and lazily.  The blocks requested so far
\* are the first blocks of the partition, in its order; the pairs yielded
\* are those of the blocks requested, in the same order, one block at most
\* being requested and not yet looked up, and one pair at most yielded and
\* not yet counted; when a block is requested every block before it is
\* counted.  After a lookup failure on block i the blocks requested are the
\* first i.  A call that ends without a lookup failure has counted one pair
\* for every block of the partition.
LazyPipeline ==
    LET blocks == partition_ignore(x, shape).val
        np == Len(parts.val)
        nc == Len(ctms.val)
    IN  /\ np <= Len(blocks)
        /\ \A i \in 1..np : parts.val[i] = blocks[i]
        /\ nc <= np /\ np <= nc + 1
        /\ \A i \in 1..nc : ctms.val[i][1] = KeyOf(parts.val[i])
        /\ Counted(counts) <= nc /\ nc <= Counted(counts) + 1
        /\ counts = CountLoop(SubSeq(ctms.val, 1, Counted(counts)), 1, <<>>)
        /\ pc = "request_part" => (np = nc /\ nc = Counted(counts))
        /\ pc = "lookup_part" => (np = nc + 1 /\ nc = Counted(counts))
        /\ pc = "count_pair" => (np = nc /\ nc = Counted(counts) + 1)
        /\ (pc = "return" /\ bdm.err = "KeyError") =>
              /\ np = nc + 1
              /\ nc = Counted(counts)
              /\ bdm.key = KeyOf(blocks[np])
        /\ (pc = "return" /\ bdm.err # "KeyError") =>
              /\ np = Len(blocks)
              /\ nc = Len(blocks)
              /\ Counted(counts) = Len(blocks)

\* C14: within one complexity() call block i+1 is requested from the
\* partitioner only after block i has been keyed, looked up and counted, the
\* pairs reach the aggregator one per block in partition order, and after a
\* lookup failure on block i no later block is requested.
C14_Complexity == (caller = "complexity") => LazyPipeline

\* The same of the stages composed by hand, which is what complexity() is
\* written to run: this holds.
C14_Stages == (caller = "stages") => LazyPipeline

\* The hand-composed pipeline run step by step ends as aggregate on lookup on
\* partition_ignore does.
StepwiseAgrees ==
    (caller = "stages" /\ pc = "return") =>
        bdm = aggregate(lookup(partition_ignore(x, shape).val, ctm))

\* A hand-composed run that has counted three blocks, and one stopped by a
\* lookup failure on its second block of three.
C14_StagesCounted ==
    /\ caller = "stages"
    /\ pc = "return"
    /\ bdm.err = ""
    /\ Len(parts.val) = 3
    /\ Counted(counts) = 3

C14_StagesStopped ==
    /\ caller = "stages"
    /\ pc = "return"
    /\ bdm.err = "KeyError"
    /\ Len(partition_ignore(x, shape).val) = 3
    /\ Len(parts.val) = 2
    /\ Len(ctms.val) = 1

====
